---- MODULE Spec2Model ----
(***************************************************************************)
(* Model of src/src/audio/sound.rs (rust-sfml): the `Sound` wrapper around *)
(* a CSFML `sfSound` voice.                                                *)
(*                                                                         *)
(* The wrapper (struct Sound, its methods, Clone and Drop) is translated   *)
(* from the source.  The audio engine behind the `ffi::sfSound_*` calls is *)
(* not part of the source tree; it is modelled from its documented        *)
(* contract: the doc comments of the wrapper methods and spec.md sections  *)
(* 3, 4.1 and 8.  Where that contract leaves the outcome to the engine     *)
(* (play with no buffer attached, set_playing_offset on a stopped voice)   *)
(* the engine definitions give every documented outcome.                   *)
(*                                                                         *)
(* Time is counted in abstract units.  Every SampleBuffer of the model has *)
(* the same length, Duration; set_playing_offset is only called with       *)
(* offsets inside the attached buffer (what the engine does with an        *)
(* offset outside the buffer is not documented and is not modelled).       *)
(***************************************************************************)
EXTENDS Integers, FiniteSets, Sequences, TLC

\* ---------------------------------------------------------------- bounds
\* Length of every sample buffer, in time units.
Duration == 2
\* Operations in a run of the system with the SoundSource parameters.
MaxSteps == 4

\* Rust variables that may hold a Sound.
Handles == {1, 2}
\* SampleBuffer objects of the caller (addresses).
Buffers == {1, 2}

\* The null sfSound pointer (s.is_null()).
Null == 0
\* The null sfSoundBuffer pointer (::std::ptr::null()).
NullBuf == 0

\* Addresses at which the engine keeps its sfSound objects.
VoiceIds == {1, 2}
Offsets == 0..Duration

VARIABLES
    voices,     \* engine: VoiceIds -> the state of each sfSound object
    allocated,  \* engine: the addresses that hold a voice
    live,       \* the handles that currently hold a Sound value
    sound,      \* handle -> its `sound` field (*mut sfSound)
    borrowed,   \* handle -> the buffers its lifetime 's is tied to
    bufAlive,   \* the SampleBuffers that have not been dropped
    nullCall,   \* an engine call was made on the null pointer
    badCall,    \* an engine call was made on a pointer that is no voice (any
                \* more): a use after sfSound_destroy, a second sfSound_destroy
    last,       \* the last operation: [op, h, arg, was, panic]; arg is the
                \* buffer given, the flag given (1 for true) or the source of
                \* a clone; was is the status play, pause or stop found
    steps       \* operations so far (counted by SpecSource only)

vars == <<voices, allocated, live, sound, borrowed, bufAlive, nullCall, badCall,
          last, steps>>

\* ------------------------------------------------------------ conversions
\* sfBool::from_bool / SfBoolExt::to_bool: sfBool is a C int.
from_bool(b) == IF b THEN 1 ELSE 0
to_bool(x) == x # 0

\* ------------------------------------------------------------ the engine
\* A freshly created sfSound.
DefaultVoice ==
    [status |-> "Stopped", offset |-> 0, pending |-> 0, loop |-> 0,
     buffer |-> NullBuf, pitch |-> 1, volume |-> 100, position |-> <<0, 0, 0>>,
     relative |-> 0, minDistance |-> 1, attenuation |-> 1]

\* A pointer the engine may be called with: a voice created and not destroyed.
ValidVoice(p) == p \in allocated

\* sfSound_create: the address of a new voice, or null when none can be
\* allocated.
sfSound_create == {Null} \cup (VoiceIds \ allocated)

\* sfSound_copy: the address of a new voice, or null; the copy is CopyOf.
sfSound_copy(p) == {Null} \cup (VoiceIds \ allocated)

\* The voice sfSound_copy builds from voice v: parameters, loop flag and
\* buffer attachment are duplicated, the playback cursor is its own.
CopyOf(v) == [v EXCEPT !.status = "Stopped", !.offset = 0, !.pending = 0]

\* Each of the following gives the set of heaps the call may leave.
Upd(vs, p, rec) == IF p \in DOMAIN vs THEN {[vs EXCEPT ![p] = rec]} ELSE {vs}
Get(vs, p) == IF p \in DOMAIN vs THEN vs[p] ELSE DefaultVoice

sfSound_setBuffer(vs, p, b) ==
    IF b = NullBuf THEN {vs}
    ELSE Upd(vs, p, [Get(vs, p) EXCEPT !.buffer = b])

sfSound_setLoop(vs, p, x) == Upd(vs, p, [Get(vs, p) EXCEPT !.loop = x])

\* play: Stopped -> starts (from 0, or from the offset requested while
\* stopped); Paused -> resumes; Playing -> restarts from the beginning.
\* With no buffer attached the engine either plays silence or does nothing.
sfSound_play(vs, p) ==
    LET v == Get(vs, p)
        started ==
            CASE v.status = "Stopped" ->
                    [v EXCEPT !.status = "Playing", !.offset = v.pending, !.pending = 0]
              [] v.status = "Paused" -> [v EXCEPT !.status = "Playing"]
              [] OTHER -> [v EXCEPT !.status = "Playing", !.offset = 0]
    IN  IF v.buffer = NullBuf
        THEN Upd(vs, p, started) \cup {vs}
        ELSE Upd(vs, p, started)

sfSound_pause(vs, p) ==
    LET v == Get(vs, p)
    IN  IF v.status = "Playing" THEN Upd(vs, p, [v EXCEPT !.status = "Paused"])
        ELSE {vs}

sfSound_stop(vs, p) ==
    LET v == Get(vs, p)
    IN  IF v.status = "Stopped" THEN {vs}
        ELSE Upd(vs, p, [v EXCEPT !.status = "Stopped", !.offset = 0, !.pending = 0])

\* setPlayingOffset: moves the read head of a paused or playing voice; on a
\* stopped voice the engine either ignores the request or keeps it for the
\* next play.
sfSound_setPlayingOffset(vs, p, t) ==
    LET v == Get(vs, p)
    IN  IF v.status = "Stopped"
        THEN Upd(vs, p, [v EXCEPT !.pending = t]) \cup {vs}
        ELSE Upd(vs, p, [v EXCEPT !.offset = t])

sfSound_getStatus(vs, p) == Get(vs, p).status
sfSound_getPlayingOffset(vs, p) == Get(vs, p).offset
sfSound_getLoop(vs, p) == Get(vs, p).loop
sfSound_getBuffer(vs, p) == Get(vs, p).buffer

sfSound_setPitch(vs, p, x) == Upd(vs, p, [Get(vs, p) EXCEPT !.pitch = x])
sfSound_setVolume(vs, p, x) == Upd(vs, p, [Get(vs, p) EXCEPT !.volume = x])
sfSound_setPosition(vs, p, x) == Upd(vs, p, [Get(vs, p) EXCEPT !.position = x])
sfSound_setRelativeToListener(vs, p, x) == Upd(vs, p, [Get(vs, p) EXCEPT !.relative = x])
sfSound_setMinDistance(vs, p, x) == Upd(vs, p, [Get(vs, p) EXCEPT !.minDistance = x])
sfSound_setAttenuation(vs, p, x) == Upd(vs, p, [Get(vs, p) EXCEPT !.attenuation = x])

\* sfSound_destroy: the voice is gone; its memory is no longer meaningful.
sfSound_destroy(vs, p) == Upd(vs, p, DefaultVoice)

\* The engine's own thread: the read head of a playing voice advances; at
\* the end of the buffer a looping voice starts over, another one stops.
Advance(v) ==
    IF v.offset < Duration THEN [v EXCEPT !.offset = v.offset + 1]
    ELSE IF to_bool(v.loop) THEN [v EXCEPT !.offset = 0]
    ELSE [v EXCEPT !.status = "Stopped", !.offset = 0]

\* ------------------------------------------------------------- queries
\* mem::transmute of the status and Time::from_raw keep the bits the engine
\* returns: the engine's value is the caller's value.
status(h) == sfSound_getStatus(voices, sound[h])
playing_offset(h) == sfSound_getPlayingOffset(voices, sound[h])
is_looping(h) == to_bool(sfSound_getLoop(voices, sound[h]))

None == [some |-> FALSE, ref |-> NullBuf]
Some(b) == [some |-> TRUE, ref |-> b]

buffer(h) ==
    LET ptr == sfSound_getBuffer(voices, sound[h])
    IN  IF ptr = NullBuf THEN None ELSE Some(ptr)

\* ------------------------------------------------------------- bookkeeping
Op(name, h, arg) == [op |-> name, h |-> h, arg |-> arg, was |-> "-", panic |-> FALSE]
Panic(name, h, arg) == [op |-> name, h |-> h, arg |-> arg, was |-> "-", panic |-> TRUE]
\* play, pause and stop also record the status they found.
OpOn(name, h, st) == [op |-> name, h |-> h, arg |-> 0, was |-> st, panic |-> FALSE]

\* An engine call on pointer p.
Call(p) ==
    /\ nullCall' = (nullCall \/ p = Null)
    /\ badCall' = (badCall \/ (p # Null /\ ~ValidVoice(p)))

Init ==
    /\ voices = [v \in VoiceIds |-> DefaultVoice]
    /\ allocated = {}
    /\ live = {}
    /\ sound = [h \in Handles |-> Null]
    /\ borrowed = [h \in Handles |-> {}]
    /\ bufAlive = Buffers
    /\ nullCall = FALSE
    /\ badCall = FALSE
    /\ last = Op("init", 0, 0)
    /\ steps = 0

\* ------------------------------------------------------------- the wrapper
Frame == UNCHANGED <<allocated, live, sound, borrowed, bufAlive>>

\* Mutant: the new voice is switched to looping.
new_Looping(h) ==
    /\ h \notin live
    /\ \E s \in sfSound_create :
         IF s = Null
         THEN /\ last' = Panic("new", h, 0)
              /\ UNCHANGED <<voices, allocated, live, sound, borrowed, bufAlive,
                             nullCall, badCall>>
         ELSE /\ \E nv \in sfSound_setLoop([voices EXCEPT ![s] = DefaultVoice], s,
                                           from_bool(TRUE)) : voices' = nv
              /\ allocated' = allocated \cup {s}
              /\ live' = live \cup {h}
              /\ sound' = [sound EXCEPT ![h] = s]
              /\ borrowed' = [borrowed EXCEPT ![h] = {}]
              /\ last' = Op("new", h, 0)
              /\ UNCHANGED <<bufAlive, nullCall, badCall>>

\* Sound::new
new(h) ==
    /\ h \notin live
    /\ \E s \in sfSound_create :
         IF s = Null
         THEN /\ last' = Panic("new", h, 0)
              /\ UNCHANGED <<voices, allocated, live, sound, borrowed, bufAlive,
                             nullCall, badCall>>
         ELSE /\ voices' = [voices EXCEPT ![s] = DefaultVoice]
              /\ allocated' = allocated \cup {s}
              /\ live' = live \cup {h}
              /\ sound' = [sound EXCEPT ![h] = s]
              /\ borrowed' = [borrowed EXCEPT ![h] = {}]
              /\ last' = Op("new", h, 0)
              /\ UNCHANGED <<bufAlive, nullCall, badCall>>

\* Mutant: the buffer is never handed to the engine.
with_buffer_NoAttach(h, b) ==
    /\ h \notin live
    /\ b \in bufAlive
    /\ \E s \in sfSound_create :
         IF s = Null
         THEN /\ last' = Panic("with_buffer", h, b)
              /\ UNCHANGED <<voices, allocated, live, sound, borrowed, bufAlive,
                             nullCall, badCall>>
         ELSE /\ voices' = [voices EXCEPT ![s] = DefaultVoice]
              /\ allocated' = allocated \cup {s}
              /\ live' = live \cup {h}
              /\ sound' = [sound EXCEPT ![h] = s]
              /\ borrowed' = [borrowed EXCEPT ![h] = {b}]
              /\ last' = Op("with_buffer", h, b)
              /\ UNCHANGED <<bufAlive, nullCall, badCall>>

\* Mutant: the pointer sfSound_create returns is not tested for null.
with_buffer_NoCheck(h, b) ==
    /\ h \notin live
    /\ b \in bufAlive
    /\ \E s \in sfSound_create :
         /\ \E nv \in sfSound_setBuffer(
                         IF s = Null THEN voices ELSE [voices EXCEPT ![s] = DefaultVoice],
                         s, b) : voices' = nv
         /\ nullCall' = (nullCall \/ s = Null)
         /\ allocated' = allocated \cup ({s} \ {Null})
         /\ live' = live \cup {h}
         /\ sound' = [sound EXCEPT ![h] = s]
         /\ borrowed' = [borrowed EXCEPT ![h] = {b}]
         /\ last' = Op("with_buffer", h, b)
         /\ UNCHANGED <<bufAlive, badCall>>

\* Sound::with_buffer
with_buffer(h, b) ==
    /\ h \notin live
    /\ b \in bufAlive
    /\ \E s \in sfSound_create :
         IF s = Null
         THEN /\ last' = Panic("with_buffer", h, b)
              /\ UNCHANGED <<voices, allocated, live, sound, borrowed, bufAlive,
                             nullCall, badCall>>
         ELSE /\ \E nv \in sfSound_setBuffer([voices EXCEPT ![s] = DefaultVoice], s, b) :
                    voices' = nv
              /\ allocated' = allocated \cup {s}
              /\ live' = live \cup {h}
              /\ sound' = [sound EXCEPT ![h] = s]
              /\ borrowed' = [borrowed EXCEPT ![h] = {b}]
              /\ last' = Op("with_buffer", h, b)
              /\ UNCHANGED <<bufAlive, nullCall, badCall>>

\* Mutant: the flag is negated on its way to the engine.
set_looping_Negated(h, looping) ==
    /\ h \in live
    /\ \E nv \in sfSound_setLoop(voices, sound[h], from_bool(~looping)) : voices' = nv
    /\ Call(sound[h])
    /\ last' = Op("set_looping", h, IF looping THEN 1 ELSE 0)
    /\ Frame

\* Sound::set_looping
set_looping(h, looping) ==
    /\ h \in live
    /\ \E nv \in sfSound_setLoop(voices, sound[h], from_bool(looping)) : voices' = nv
    /\ Call(sound[h])
    /\ last' = Op("set_looping", h, IF looping THEN 1 ELSE 0)
    /\ Frame

\* Mutant: play stops the voice first, so it always starts from the beginning.
play_Restarts(h) ==
    /\ h \in live
    /\ \E sv \in sfSound_stop(voices, sound[h]) :
          \E nv \in sfSound_play(sv, sound[h]) : voices' = nv
    /\ Call(sound[h])
    /\ last' = OpOn("play", h, status(h))
    /\ Frame

\* Sound::play
play(h) ==
    /\ h \in live
    /\ \E nv \in sfSound_play(voices, sound[h]) : voices' = nv
    /\ Call(sound[h])
    /\ last' = OpOn("play", h, status(h))
    /\ Frame

\* Mutant: pause calls sfSound_stop.
pause_Stops(h) ==
    /\ h \in live
    /\ \E nv \in sfSound_stop(voices, sound[h]) : voices' = nv
    /\ Call(sound[h])
    /\ last' = OpOn("pause", h, status(h))
    /\ Frame

\* Sound::pause
pause(h) ==
    /\ h \in live
    /\ \E nv \in sfSound_pause(voices, sound[h]) : voices' = nv
    /\ Call(sound[h])
    /\ last' = OpOn("pause", h, status(h))
    /\ Frame

\* Mutant: stop calls sfSound_pause.
stop_Pauses(h) ==
    /\ h \in live
    /\ \E nv \in sfSound_pause(voices, sound[h]) : voices' = nv
    /\ Call(sound[h])
    /\ last' = OpOn("stop", h, status(h))
    /\ Frame

\* Sound::stop
stop(h) ==
    /\ h \in live
    /\ \E nv \in sfSound_stop(voices, sound[h]) : voices' = nv
    /\ Call(sound[h])
    /\ last' = OpOn("stop", h, status(h))
    /\ Frame

\* Sound::set_playing_offset
set_playing_offset(h, time_offset) ==
    /\ h \in live
    /\ \E nv \in sfSound_setPlayingOffset(voices, sound[h], time_offset) : voices' = nv
    /\ Call(sound[h])
    /\ last' = Op("set_playing_offset", h, 0)
    /\ Frame

\* Sound::set_buffer
set_buffer(h, b) ==
    /\ h \in live
    /\ b \in bufAlive
    /\ \E nv \in sfSound_setBuffer(voices, sound[h], b) : voices' = nv
    /\ Call(sound[h])
    /\ borrowed' = [borrowed EXCEPT ![h] = @ \cup {b}]
    /\ last' = Op("set_buffer", h, b)
    /\ UNCHANGED <<allocated, live, sound, bufAlive>>

\* Mutant: the clone is made with sfSound_create, not sfSound_copy.
clone_Fresh(h, src) ==
    /\ h \notin live
    /\ src \in live
    /\ \E s \in sfSound_create :
         IF s = Null
         THEN /\ last' = Panic("clone", h, src)
              /\ UNCHANGED <<voices, allocated, live, sound, borrowed, bufAlive,
                             nullCall, badCall>>
         ELSE /\ voices' = [voices EXCEPT ![s] = DefaultVoice]
              /\ allocated' = allocated \cup {s}
              /\ live' = live \cup {h}
              /\ sound' = [sound EXCEPT ![h] = s]
              /\ borrowed' = [borrowed EXCEPT ![h] = borrowed[src]]
              /\ last' = Op("clone", h, src)
              /\ UNCHANGED <<bufAlive, nullCall, badCall>>

\* Mutant: the clone is a copy of the struct, pointer included.
clone_Alias(h, src) ==
    /\ h \notin live
    /\ src \in live
    /\ live' = live \cup {h}
    /\ sound' = [sound EXCEPT ![h] = sound[src]]
    /\ borrowed' = [borrowed EXCEPT ![h] = borrowed[src]]
    /\ last' = Op("clone", h, src)
    /\ UNCHANGED <<voices, allocated, bufAlive, nullCall, badCall>>

\* Clone for Sound: h receives the clone of src.
clone(h, src) ==
    /\ h \notin live
    /\ src \in live
    /\ Call(sound[src])
    /\ \E s \in sfSound_copy(sound[src]) :
         IF s = Null
         THEN /\ last' = Panic("clone", h, src)
              /\ UNCHANGED <<voices, allocated, live, sound, borrowed, bufAlive>>
         ELSE /\ voices' = [voices EXCEPT ![s] = CopyOf(Get(voices, sound[src]))]
              /\ allocated' = allocated \cup {s}
              /\ live' = live \cup {h}
              /\ sound' = [sound EXCEPT ![h] = s]
              /\ borrowed' = [borrowed EXCEPT ![h] = borrowed[src]]
              /\ last' = Op("clone", h, src)
              /\ UNCHANGED bufAlive

\* Drop for Sound
drop(h) ==
    /\ h \in live
    /\ \E nv \in sfSound_destroy(voices, sound[h]) : voices' = nv
    /\ Call(sound[h])
    /\ allocated' = allocated \ {sound[h]}
    /\ live' = live \ {h}
    /\ sound' = [sound EXCEPT ![h] = Null]
    /\ borrowed' = [borrowed EXCEPT ![h] = {}]
    /\ last' = Op("drop", h, 0)
    /\ UNCHANGED bufAlive

\* SoundSource for Sound
set_pitch(h, pitch) ==
    /\ h \in live
    /\ \E nv \in sfSound_setPitch(voices, sound[h], pitch) : voices' = nv
    /\ Call(sound[h])
    /\ last' = Op("set_pitch", h, 0)
    /\ Frame

set_volume(h, volume) ==
    /\ h \in live
    /\ \E nv \in sfSound_setVolume(voices, sound[h], volume) : voices' = nv
    /\ Call(sound[h])
    /\ last' = Op("set_volume", h, 0)
    /\ Frame

set_position(h, position) ==
    /\ h \in live
    /\ \E nv \in sfSound_setPosition(voices, sound[h], position) : voices' = nv
    /\ Call(sound[h])
    /\ last' = Op("set_position", h, 0)
    /\ Frame

set_position3f(h, x, y, z) ==
    /\ h \in live
    /\ \E nv \in sfSound_setPosition(voices, sound[h], <<x, y, z>>) : voices' = nv
    /\ Call(sound[h])
    /\ last' = Op("set_position3f", h, 0)
    /\ Frame

set_relative_to_listener(h, relative) ==
    /\ h \in live
    /\ \E nv \in sfSound_setRelativeToListener(voices, sound[h], from_bool(relative)) :
         voices' = nv
    /\ Call(sound[h])
    /\ last' = Op("set_relative_to_listener", h, 0)
    /\ Frame

set_min_distance(h, distance) ==
    /\ h \in live
    /\ \E nv \in sfSound_setMinDistance(voices, sound[h], distance) : voices' = nv
    /\ Call(sound[h])
    /\ last' = Op("set_min_distance", h, 0)
    /\ Frame

set_attenuation(h, attenuation) ==
    /\ h \in live
    /\ \E nv \in sfSound_setAttenuation(voices, sound[h], attenuation) : voices' = nv
    /\ Call(sound[h])
    /\ last' = Op("set_attenuation", h, 0)
    /\ Frame

pitch(h) == Get(voices, sound[h]).pitch
volume(h) == Get(voices, sound[h]).volume
position(h) == Get(voices, sound[h]).position
is_relative_to_listener(h) == to_bool(Get(voices, sound[h]).relative)
min_distance(h) == Get(voices, sound[h]).minDistance
attenuation(h) == Get(voices, sound[h]).attenuation

\* ------------------------------------------------------------- environment
\* The engine plays: the read head of a playing voice with a buffer moves on.
Tick(v) ==
    /\ ValidVoice(v)
    /\ voices[v].status = "Playing"
    /\ voices[v].buffer # NullBuf
    /\ voices' = [voices EXCEPT ![v] = Advance(voices[v])]
    /\ last' = Op("tick", 0, 0)
    /\ UNCHANGED <<allocated, live, sound, borrowed, bufAlive, nullCall, badCall>>

\* The caller drops a SampleBuffer: the borrow checker allows it only once
\* no Sound<'s> whose lifetime is tied to the buffer is alive.
drop_buffer(b) ==
    /\ b \in bufAlive
    /\ \A h \in live : b \notin borrowed[h]
    /\ bufAlive' = bufAlive \ {b}
    /\ last' = Op("drop_buffer", 0, b)
    /\ UNCHANGED <<voices, allocated, live, sound, borrowed, nullCall, badCall>>

\* ------------------------------------------------------------- the systems
\* Values the SoundSource setters are called with.
Floats == {1, 2}
Vectors == {<<0, 0, 0>>, <<1, 2, 3>>}

\* set_playing_offset is called with an offset inside the attached buffer.
InBuffer(h, t) ==
    t <= (IF sfSound_getBuffer(voices, sound[h]) = NullBuf THEN 0 ELSE Duration)

\* Playback control, buffers and lifetimes; the parameters keep their defaults.
Next ==
    \/ \E h \in Handles : new(h) /\ UNCHANGED steps
    \/ \E h \in Handles, b \in Buffers : with_buffer(h, b) /\ UNCHANGED steps
    \/ \E h \in Handles, l \in BOOLEAN : set_looping(h, l) /\ UNCHANGED steps
    \/ \E h \in Handles : play(h) /\ UNCHANGED steps
    \/ \E h \in Handles : pause(h) /\ UNCHANGED steps
    \/ \E h \in Handles : stop(h) /\ UNCHANGED steps
    \/ \E h \in Handles, t \in Offsets :
          InBuffer(h, t) /\ set_playing_offset(h, t) /\ UNCHANGED steps
    \/ \E h \in Handles, b \in Buffers : set_buffer(h, b) /\ UNCHANGED steps
    \/ \E h, src \in Handles : clone(h, src) /\ UNCHANGED steps
    \/ \E h \in Handles : drop(h) /\ UNCHANGED steps
    \/ \E v \in VoiceIds : Tick(v) /\ UNCHANGED steps
    \/ \E b \in Buffers : drop_buffer(b) /\ UNCHANGED steps

Spec == Init /\ [][Next]_vars

\* Runs of at most MaxSteps operations, the SoundSource setters included.
Counted == steps < MaxSteps /\ steps' = steps + 1

NextSource ==
    \/ \E h \in Handles : Counted /\ new(h)
    \/ \E h \in Handles, b \in Buffers : Counted /\ with_buffer(h, b)
    \/ \E h \in Handles, l \in BOOLEAN : Counted /\ set_looping(h, l)
    \/ \E h \in Handles : Counted /\ play(h)
    \/ \E h \in Handles : Counted /\ pause(h)
    \/ \E h \in Handles : Counted /\ stop(h)
    \/ \E h \in Handles, t \in Offsets :
          Counted /\ InBuffer(h, t) /\ set_playing_offset(h, t)
    \/ \E h \in Handles, b \in Buffers : Counted /\ set_buffer(h, b)
    \/ \E h, src \in Handles : Counted /\ clone(h, src)
    \/ \E h \in Handles : Counted /\ drop(h)
    \/ \E v \in VoiceIds : Counted /\ Tick(v)
    \/ \E h \in Handles, x \in Floats : Counted /\ set_pitch(h, x)
    \/ \E h \in Handles, x \in Floats : Counted /\ set_volume(h, x)
    \/ \E h \in Handles, x \in Vectors : Counted /\ set_position(h, x)
    \/ \E h \in Handles, x \in Vectors : Counted /\ set_position3f(h, x[1], x[2], x[3])
    \/ \E h \in Handles, x \in BOOLEAN : Counted /\ set_relative_to_listener(h, x)
    \/ \E h \in Handles, x \in Floats : Counted /\ set_min_distance(h, x)
    \/ \E h \in Handles, x \in Floats : Counted /\ set_attenuation(h, x)

SpecSource == Init /\ [][NextSource]_vars


\* ------------------------------------------------------------- properties
\* Everything a caller can observe of the Sound in h.
Params(h) ==
    [looping |-> is_looping(h), pitch |-> pitch(h), volume |-> volume(h),
     position |-> position(h), relative |-> is_relative_to_listener(h),
     min_distance |-> min_distance(h), attenuation |-> attenuation(h)]

Attributes(h) ==
    [status |-> status(h), offset |-> playing_offset(h), buffer |-> buffer(h),
     params |-> Params(h)]

\* The last operation was `name`, called on the Sound in h.
Did(name, h) == last.op = name /\ last.h = h /\ ~last.panic

\* C1: stop() leaves the handle Stopped at offset 0 whatever its state was,
\* and changes nothing observable when the handle was already Stopped.
C1_StopResets ==
    [][\A h \in Handles :
          Did("stop", h)' =>
              /\ status(h)' = "Stopped"
              /\ playing_offset(h)' = 0
              /\ (status(h) = "Stopped" => Attributes(h)' = Attributes(h))]_vars

C1_Witness ==
    \E h \in live :
        /\ Did("stop", h)
        /\ last.was = "Playing"
        /\ buffer(h).some
        /\ status(h) = "Stopped"

\* The offset a stopped voice will start from: 0, unless the engine kept the
\* offset of a set_playing_offset made while the voice was stopped.
StartOffset(h) == Get(voices, sound[h]).pending

\* C2 as stated: play() always leaves the handle Playing; from Stopped it
\* begins at offset 0, from Paused it resumes at the offset it was paused at,
\* from Playing it restarts at offset 0.
C2_PlayAsStated ==
    [][\A h \in Handles :
          Did("play", h)' =>
              /\ status(h)' = "Playing"
              /\ (status(h) = "Stopped" => playing_offset(h)' = 0)
              /\ (status(h) = "Paused" => playing_offset(h)' = playing_offset(h))
              /\ (status(h) = "Playing" => playing_offset(h)' = 0)]_vars

\* C2 amended: play() on a handle with a buffer attached leaves it Playing;
\* from Stopped it begins at offset 0 when no set_playing_offset was made on
\* the stopped handle (else at 0 or at the offset so requested), from Paused
\* it resumes at the paused offset, from Playing it restarts at 0.  With no
\* buffer attached play() either does the same or changes nothing.
C2_Play ==
    [][\A h \in Handles :
          Did("play", h)' =>
              \/ /\ status(h)' = "Playing"
                 /\ (status(h) = "Stopped" => playing_offset(h)' = StartOffset(h))
                 /\ (status(h) = "Paused" => playing_offset(h)' = playing_offset(h))
                 /\ (status(h) = "Playing" => playing_offset(h)' = 0)
              \/ /\ ~buffer(h).some
                 /\ Attributes(h)' = Attributes(h)]_vars

C2_Witness ==
    \E h \in live :
        /\ Did("play", h)
        /\ last.was = "Paused"
        /\ status(h) = "Playing"
        /\ playing_offset(h) > 0

\* C3: pause() turns a Playing handle Paused at the offset it had, and
\* changes neither status nor offset of a Stopped or Paused handle; while a
\* handle stays Paused its offset moves only by set_playing_offset.
C3_Pause ==
    [][\A h \in Handles :
          /\ Did("pause", h)' =>
                /\ status(h)' = (IF status(h) = "Playing" THEN "Paused" ELSE status(h))
                /\ playing_offset(h)' = playing_offset(h)
          /\ (/\ h \in live /\ h \in live'
              /\ status(h) = "Paused" /\ status(h)' = "Paused"
              /\ ~Did("set_playing_offset", h)')
             => playing_offset(h)' = playing_offset(h)]_vars

C3_Witness ==
    \E h \in live :
        /\ Did("pause", h)
        /\ last.was = "Playing"
        /\ status(h) = "Paused"
        /\ playing_offset(h) > 0

\* C4: right after Sound::new the handle is Stopped, not looping, at offset
\* 0 and has no buffer.
C4_New ==
    \A h \in Handles :
        Did("new", h) =>
            /\ h \in live
            /\ status(h) = "Stopped"
            /\ ~is_looping(h)
            /\ playing_offset(h) = 0
            /\ buffer(h) = None

C4_Witness ==
    \E h \in live :
        /\ Did("new", h)
        /\ \E g \in live \ {h} : status(g) = "Playing" /\ is_looping(g) /\ buffer(g).some

\* C6: a handle keeps the looping flag last given to set_looping; when the
\* read head of a Playing looping handle is at the end of the buffer the
\* engine takes it back to offset 0 and the handle stays Playing, so the
\* engine never ends the playback of a looping handle by itself; a handle
\* that is not looping is Stopped when it has played to the end.
C6_Looping ==
    [][\A h \in Handles :
          /\ Did("set_looping", h)' => is_looping(h)' = (last'.arg = 1)
          /\ (h \in live /\ h \in live' /\ ~Did("set_looping", h)')
                => is_looping(h)' = is_looping(h)
          /\ (h \in live /\ last'.op = "tick" /\ Attributes(h)' # Attributes(h)) =>
                IF playing_offset(h) < Duration
                THEN status(h)' = "Playing" /\ playing_offset(h)' = playing_offset(h) + 1
                ELSE IF is_looping(h)
                     THEN status(h)' = "Playing" /\ playing_offset(h)' = 0
                     ELSE status(h)' = "Stopped"
          /\ (h \in live /\ last'.op = "tick" /\ is_looping(h))
                => status(h)' = status(h)]_vars

C6_Witness ==
    \E h \in Handles :
        /\ live = {h}
        /\ last.op = "tick"
        /\ is_looping(h)
        /\ status(h) = "Playing"
        /\ playing_offset(h) = 0

\* C8: buffer() reports the buffer last given to set_buffer, or to
\* with_buffer, or the one the source of the clone had; it is none for a
\* handle made by new() until set_buffer is called, and no other operation
\* changes it.
C8_Buffer ==
    [][\A h \in Handles :
          h \in live' =>
              /\ (Did("set_buffer", h)' \/ Did("with_buffer", h)')
                    => buffer(h)' = Some(last'.arg)
              /\ Did("new", h)' => buffer(h)' = None
              /\ Did("clone", h)' => buffer(h)' = buffer(last'.arg)
              /\ (h \in live /\ ~Did("set_buffer", h)') => buffer(h)' = buffer(h)]_vars

C8_Witness ==
    \E h \in live :
        /\ Did("set_buffer", h)
        /\ borrowed[h] = Buffers
        /\ buffer(h) = Some(last.arg)

\* C9: when the engine returns null, new, with_buffer and clone panic: no
\* Sound is made, nothing else changes, no live Sound ever holds the null
\* pointer and the engine is never called on it.
C9_NullPanics ==
    [][/\ \A h \in live' : sound'[h] # Null
       /\ ~nullCall'
       /\ last'.panic =>
             /\ last'.op \in {"new", "with_buffer", "clone"}
             /\ last'.h \notin live'
             /\ UNCHANGED <<voices, allocated, live, sound, borrowed, bufAlive>>]_vars

C9_Witness ==
    /\ last.panic
    /\ last.op = "clone"
    /\ last.arg \in live
    /\ status(last.arg) = "Playing"
    /\ Cardinality(allocated) = 1

\* C10: every voice of the engine is owned by exactly one live Sound, a
\* voice is destroyed when its Sound is dropped and never again, and a drop
\* leaves the sample buffers and every other Sound as they were.
C10_ReleasedOnce ==
    [][/\ \A v \in allocated' : Cardinality({h \in live' : sound'[h] = v}) = 1
       /\ \A h \in live' : sound'[h] \in allocated'
       /\ ~badCall'
       /\ \A h \in Handles :
             Did("drop", h)' =>
                 /\ allocated' = allocated \ {sound[h]}
                 /\ bufAlive' = bufAlive
                 /\ \A g \in live \ {h} :
                       g \in live' /\ sound'[g] = sound[g] /\ Attributes(g)' = Attributes(g)]_vars

C10_Witness ==
    \E h \in Handles, g \in live :
        /\ Did("drop", h)
        /\ h \notin live
        /\ buffer(g).some
        /\ buffer(g).ref \in bufAlive
        /\ status(g) = "Playing"
        /\ Cardinality(allocated) = 1

\* C7: a clone has the looping flag, the parameters and the buffer of its
\* source at the moment of cloning, the source is not changed by it, and
\* an operation on one Sound changes no attribute of another.
HandleOps ==
    {"set_looping", "play", "pause", "stop", "set_playing_offset", "set_buffer",
     "set_pitch", "set_volume", "set_position", "set_position3f",
     "set_relative_to_listener", "set_min_distance", "set_attenuation", "drop",
     "new", "with_buffer", "clone"}

C7_Clone ==
    [][\A h \in Handles :
          /\ Did("clone", h)' =>
                /\ Params(h)' = Params(last'.arg)
                /\ buffer(h)' = buffer(last'.arg)
                /\ sound'[h] # sound[last'.arg]
          /\ (h \in live /\ last'.op \in HandleOps /\ last'.h # h) =>
                h \in live' /\ Attributes(h)' = Attributes(h)]_vars

\* Two Sounds with a buffer and a pitch that is not the default, made in at
\* most MaxSteps = 4 operations: the second is a clone of the first, and a
\* setter has been called on one of them since.
C7_Witness ==
    /\ steps <= 4
    /\ live = Handles
    /\ \A h \in Handles : pitch(h) = 2 /\ buffer(h).some
    /\ volume(1) # volume(2)

====
